---- MODULE Spec2Model ----
(***************************************************************************)
(* Model of src/src/main.rs: open a gzip file, wrap it in a multi-member   *)
(* gzip decoder and a BufReader, pull lines, write each line + "\n" to a   *)
(* BufWriter over stdout, flush once, return.                              *)
(*                                                                         *)
(* Bytes are integers.  The input file is a flat byte sequence.  A gzip    *)
(* member is modelled as  magic(2 bytes) . body . trailer(CRC, ISIZE),     *)
(* the body being a run-length code of the text closed by an end-of-block  *)
(* byte, so that decoding is a real parse that can fail.                   *)
(***************************************************************************)
EXTENDS Integers, Sequences, FiniteSets, TLC

\* ---------------------------------------------------------------- bounds
MaxLen == 3          \* total number of text bytes over all members
MaxMembers == 2      \* number of gzip members in the input file
BufCapacity == 3     \* capacity of the BufWriter (scaled down from 8 KiB)
MaxCut == 4          \* a truncated file lacks at most this many of its last bytes

\* ----------------------------------------------------------------- bytes
LF == 10             \* '\n'
CR == 13             \* '\r'
Ch == 97             \* 'a', an ordinary character
BAD == 255           \* 0xFF, a byte no UTF-8 text contains

Alphabet == {LF, CR, Ch, BAD}

filename == "test-multi.txt.gz"

\* ------------------------------------------------------ sequence helpers
RECURSIVE Sum(_)
Sum(s) == IF s = <<>> THEN 0 ELSE Head(s) + Sum(Tail(s))

RECURSIVE Concat(_)
Concat(ss) == IF ss = <<>> THEN <<>> ELSE Head(ss) \o Concat(Tail(ss))

Rep(n, b) == [i \in 1..n |-> b]

Drop(s, k) == SubSeq(s, k + 1, Len(s))

IsPrefix(s, t) == Len(s) <= Len(t) /\ SubSeq(t, 1, Len(s)) = s

\* ------------------------------------------------- gzip writer (the input)
Crc(t) == Sum(t) % 256

RunLen(t) ==
    CHOOSE k \in 1..Len(t) :
        /\ \A i \in 1..k : t[i] = t[1]
        /\ (k = Len(t) \/ t[k + 1] # t[1])

RECURSIVE Deflate(_)
Deflate(t) ==
    IF t = <<>> THEN <<0>>
    ELSE LET k == RunLen(t) IN <<k, t[1]>> \o Deflate(Drop(t, k))

GzEncode(t) == <<31, 139>> \o Deflate(t) \o <<Crc(t), Len(t)>>

EncodeAll(ts) == Concat([i \in 1..Len(ts) |-> GzEncode(ts[i])])

\* ------------------------------------------------------ gzip decoder
\* Inflate the body that starts at f[q]: the decoded bytes, the position
\* after the end-of-block byte, and whether the body was complete.
RECURSIVE Inflate(_, _)
Inflate(f, q) ==
    IF q > Len(f) THEN [bytes |-> <<>>, next |-> q, ok |-> FALSE]
    ELSE IF f[q] = 0 THEN [bytes |-> <<>>, next |-> q + 1, ok |-> TRUE]
    ELSE IF q + 1 > Len(f) THEN [bytes |-> <<>>, next |-> q, ok |-> FALSE]
    ELSE LET r == Inflate(f, q + 2)
         IN  [bytes |-> Rep(f[q], f[q + 1]) \o r.bytes,
              next |-> r.next, ok |-> r.ok]

\* Decode the one member that starts at f[p]: header, body, trailer.
DecodeMember(f, p) ==
    IF p + 1 > Len(f) \/ f[p] # 31 \/ f[p + 1] # 139
    THEN [bytes |-> <<>>, next |-> p, ok |-> FALSE]
    ELSE LET r == Inflate(f, p + 2)
         IN  IF ~r.ok THEN r
             ELSE IF \/ r.next + 1 > Len(f)
                     \/ f[r.next] # Crc(r.bytes)
                     \/ f[r.next + 1] # Len(r.bytes)
                  THEN [bytes |-> r.bytes, next |-> r.next, ok |-> FALSE]
                  ELSE [bytes |-> r.bytes, next |-> r.next + 2, ok |-> TRUE]

\* Variant: a decoder that stops after its first member (a GzDecoder).
AfterMemberSingle(f, m) ==
    IF ~m.ok THEN [st |-> "Err", fpos |-> m.next]
    ELSE [st |-> "End", fpos |-> m.next]

\* Decoder state after member m has been decoded from file f: a failed
\* member poisons the decoder, end of file ends the stream, anything else
\* is parsed as the header of a further member.
AfterMember(f, m) ==
    IF ~m.ok THEN [st |-> "Err", fpos |-> m.next]
    ELSE IF m.next > Len(f) THEN [st |-> "End", fpos |-> m.next]
    ELSE [st |-> "Header", fpos |-> m.next]

\* One read() of the decoder: the next non-empty chunk of decoded bytes,
\* or no bytes at the end of the stream, or an error.
RECURSIVE GzRead(_, _)
GzRead(f, d) ==
    IF d.st = "End" THEN [bytes |-> <<>>, err |-> FALSE, d |-> d]
    ELSE IF d.st = "Err" THEN [bytes |-> <<>>, err |-> TRUE, d |-> d]
    ELSE LET m == DecodeMember(f, d.fpos)
             nd == AfterMember(f, m)
         IN  IF m.bytes # <<>>
             THEN [bytes |-> m.bytes, err |-> FALSE, d |-> nd]
             ELSE GzRead(f, nd)

\* --------------------------------------------------- BufRead::lines()
HasLF(b) == \E i \in 1..Len(b) : b[i] = LF

FirstLF(b) == CHOOSE i \in 1..Len(b) : b[i] = LF /\ \A j \in 1..(i - 1) : b[j] # LF

\* read_until(b'\n'): r is the reader [buf, d]; the raw bytes of the next
\* line including its '\n' when there is one.
RECURSIVE read_until(_, _)
read_until(f, r) ==
    IF HasLF(r.buf)
    THEN LET i == FirstLF(r.buf)
         IN  [tag |-> "some", bytes |-> SubSeq(r.buf, 1, i),
              r |-> [buf |-> Drop(r.buf, i), d |-> r.d]]
    ELSE LET g == GzRead(f, r.d)
         IN  IF g.err
             THEN [tag |-> "err", bytes |-> <<>>, r |-> [buf |-> <<>>, d |-> g.d]]
             ELSE IF g.bytes = <<>>
             THEN [tag |-> IF r.buf = <<>> THEN "eof" ELSE "some",
                   bytes |-> r.buf, r |-> [buf |-> <<>>, d |-> g.d]]
             ELSE read_until(f, [buf |-> r.buf \o g.bytes, d |-> g.d])

ValidUtf8(b) == \A i \in 1..Len(b) : b[i] # BAD

\* Variant: only the "\n" is stripped.
StripTerminatorKeepCR(b) ==
    IF b # <<>> /\ b[Len(b)] = LF THEN SubSeq(b, 1, Len(b) - 1) ELSE b

\* Lines::next strips one "\n" and then, only if it stripped that, one "\r".
StripTerminator(b) ==
    IF b # <<>> /\ b[Len(b)] = LF
    THEN LET c == SubSeq(b, 1, Len(b) - 1)
         IN  IF c # <<>> /\ c[Len(c)] = CR THEN SubSeq(c, 1, Len(c) - 1) ELSE c
    ELSE b

NoLine == [tag |-> "none", val |-> <<>>, err |-> ""]

\* reader.lines().next(): None, Some(Ok(line)) or Some(Err(e)).
lines_next(f, r) ==
    LET u == read_until(f, r)
    IN  IF u.tag = "eof" THEN [item |-> NoLine, r |-> u.r]
        ELSE IF u.tag = "err"
        THEN [item |-> [tag |-> "err", val |-> <<>>, err |-> "gzip"], r |-> u.r]
        ELSE IF ~ValidUtf8(u.bytes)
        THEN [item |-> [tag |-> "err", val |-> <<>>, err |-> "InvalidData"], r |-> u.r]
        ELSE [item |-> [tag |-> "ok", val |-> StripTerminator(u.bytes), err |-> ""],
              r |-> u.r]

\* ------------------------------------------------------- BufWriter
\* Variant: the bytes the device took are not removed from the buffer.
flush_bufKeep(buf, o, k) ==
    [buf |-> buf, out |-> o \o SubSeq(buf, 1, k), ok |-> k = Len(buf)]

\* Standard output passes whole lines straight on to the device; every byte
\* string the BufWriter hands over ends in LF, so stdout holds nothing back.
\* flush_buf: the device takes the first k bytes of the buffer; it took
\* them all (success) iff k = Len(buf).  What it did not take stays.
flush_buf(buf, o, k) ==
    [buf |-> Drop(buf, k), out |-> o \o SubSeq(buf, 1, k), ok |-> k = Len(buf)]

\* BufWriter::write_all(data).  k1, k2: how many bytes the device takes in
\* the flush of the buffer and in the direct write, should they happen.
write_all(buf, o, data, k1, k2) ==
    IF Len(data) < BufCapacity - Len(buf)
    THEN [buf |-> buf \o data, out |-> o, ok |-> TRUE]
    ELSE LET fl == IF Len(data) > BufCapacity - Len(buf)
                   THEN flush_buf(buf, o, k1)
                   ELSE [buf |-> buf, out |-> o, ok |-> TRUE]
         IN  IF ~fl.ok THEN fl
             ELSE IF Len(data) >= BufCapacity
             THEN [buf |-> fl.buf, out |-> fl.out \o SubSeq(data, 1, k2),
                   ok |-> k2 = Len(data)]
             ELSE [buf |-> fl.buf \o data, out |-> fl.out, ok |-> TRUE]

\* Variant: the line is written without a terminator.
LineBytesNoLF(l) == l

\* The bytes of one write: line + "\n".
LineBytes(l) == l \o <<LF>>

\* Variant: the counter is not incremented.
NextCounterStuck(c) == c

\* main.rs 27.
NextCounter(c) == c + 1

\* ------------------------------------------------------------- state
VARIABLES
    fileExists,     \* does File::open find the file
    file,           \* the bytes of the file
    texts,          \* the texts the members of the file were compressed from
    damage,         \* "none", "crc" or "trunc": what happened to the file since
    pc,             \* position in main
    status,         \* "running", then how the process ended: "ok", "err", "panic"
    pending,        \* how main is leaving its scope while locals are dropped
    reader,         \* BufReader<MultiGzDecoder<File>>: [buf, d]
    writer,         \* BufWriter<StdoutLock>: [created, buf]
    line,           \* the item the for loop holds
    counter_lines,
    stdout,         \* bytes that reached standard output
    stderr,         \* diagnostics, in order
    handed,         \* all bytes given to writer.write_all so far
    pulls,          \* number of items the line iterator has produced
    flushes,        \* number of calls of writer.flush()
    refused,        \* has standard output ever refused bytes offered to it
    failures        \* the failures so far, in order: "open", "read", "write", "flush"

vars == <<fileExists, file, texts, damage, pc, status, pending, reader, writer,
          line, counter_lines, stdout, stderr, handed, pulls, flushes, refused,
          failures>>

\* ------------------------------------------------------------ inputs
SeqsUpTo(n) == UNION {[1..k -> Alphabet] : k \in 0..n}

\* Cut points that split a text of length n into m members.
Cuts(n, m) ==
    {c \in [1..(m - 1) -> 0..n] : \A i \in 1..(m - 2) : c[i] <= c[i + 1]}

Pieces(t, c) ==
    [i \in 1..(Len(c) + 1) |->
        SubSeq(t, (IF i = 1 THEN 0 ELSE c[i - 1]) + 1,
                  IF i = Len(c) + 1 THEN Len(t) ELSE c[i])]

MemberTexts ==
    {Pieces(t, c) : <<t, c>> \in
        UNION {{t} \X Cuts(Len(t), m) : t \in SeqsUpTo(MaxLen), m \in 1..MaxMembers}}

\* The file a damage leaves: a wrong CRC in the last trailer, or a cut.
Damaged(f, d, k) ==
    IF d = "crc" THEN [f EXCEPT ![Len(f) - 1] = (f[Len(f) - 1] + 1) % 256]
    ELSE IF d = "trunc" THEN SubSeq(f, 1, k)
    ELSE f

NoReader == [buf |-> <<>>, d |-> [st |-> "Closed", fpos |-> 0]]

\* Either the file is missing, or it is a gzip file of one or more members,
\* intact or damaged.
Init ==
    /\ \/ /\ fileExists = FALSE
          /\ texts = <<>>
          /\ damage = "none"
          /\ file = <<>>
       \/ /\ fileExists = TRUE
          /\ \E ts \in MemberTexts, d \in {"none", "crc", "trunc"} :
               LET f == EncodeAll(ts)
               IN  \E k \in (IF d = "trunc" THEN 1..MaxCut ELSE {0}) :
                     /\ texts = ts
                     /\ damage = d
                     /\ file = Damaged(f, d, Len(f) - k)
    /\ pc = "open"
    /\ status = "running"
    /\ pending = "none"
    /\ reader = NoReader
    /\ writer = [created |-> FALSE, buf |-> <<>>]
    /\ line = NoLine
    /\ counter_lines = 0
    /\ stdout = <<>>
    /\ stderr = <<>>
    /\ handed = <<>>
    /\ pulls = 0
    /\ flushes = 0
    /\ refused = FALSE
    /\ failures = <<>>

\* ----------------------------------------------------------- actions
\* The message of a panic!: which one, the filename, the line ordinal (0
\* when the message has none) and the underlying error.
Diag(msg, l, e) == [msg |-> msg, file |-> filename, line |-> l, err |-> e]

\* What the runtime prints when main returns Err: the error alone.
RuntimeError == [msg |-> "Error", file |-> "", line |-> 0, err |-> "io"]

\* Variant: an Err is unwrapped, which panics.
QuestionPanics(ok, cont) == IF ok THEN cont ELSE "panic"

\* The ? operator: on Err main returns it, on Ok main goes on as cont.
Question(ok, cont) == IF ok THEN cont ELSE "err"

\* Variant: a failed open is not noticed and main goes on.
open_reading_gzipUnchecked ==
    /\ pc = "open"
    /\ reader' = [buf |-> <<>>, d |-> [st |-> "Header", fpos |-> 1]]
    /\ pc' = "stdout"
    /\ UNCHANGED <<fileExists, file, texts, damage, status, pending, writer, line,
                   counter_lines, stdout, stderr, handed, pulls, flushes, refused,
                   failures>>

\* main.rs 9-15, called at line 20.
open_reading_gzip ==
    /\ pc = "open"
    /\ \/ /\ fileExists
          /\ reader' = [buf |-> <<>>, d |-> [st |-> "Header", fpos |-> 1]]
          /\ pc' = "stdout"
          /\ UNCHANGED <<status, stderr, failures>>
       \/ /\ ~fileExists
          /\ stderr' = Append(stderr, Diag("Cannnot open file", 0, "open"))
          /\ failures' = Append(failures, "open")
          /\ status' = "panic"
          /\ pc' = "exited"
          /\ UNCHANGED reader
    /\ UNCHANGED <<fileExists, file, texts, damage, pending, writer, line,
                   counter_lines, stdout, handed, pulls, flushes, refused>>

\* main.rs 22-25.
CreateWriter ==
    /\ pc = "stdout"
    /\ writer' = [created |-> TRUE, buf |-> <<>>]
    /\ counter_lines' = 0
    /\ pc' = "next"
    /\ UNCHANGED <<fileExists, file, texts, damage, status, pending, reader, line,
                   stdout, stderr, handed, pulls, flushes, refused, failures>>

\* main.rs 26-27: the for loop asks the iterator for an item; with an item
\* in hand the body starts by counting it.  The two are one step: nothing
\* reads the counter between them, and the item is first looked at in Unwrap.
Pull ==
    /\ pc = "next"
    /\ LET n == lines_next(file, reader)
       IN  /\ reader' = n.r
           /\ line' = n.item
           /\ IF n.item.tag = "none"
              THEN /\ pc' = "flush"
                   /\ UNCHANGED <<counter_lines, pulls, failures>>
              ELSE /\ pc' = "unwrap"
                   /\ counter_lines' = NextCounter(counter_lines)
                   /\ pulls' = pulls + 1
                   /\ failures' = IF n.item.tag = "err"
                                  THEN Append(failures, "read") ELSE failures
    /\ UNCHANGED <<fileExists, file, texts, damage, status, pending, writer,
                   stdout, stderr, handed, flushes, refused>>

\* Variant: a line that cannot be read is skipped and the loop goes on.
UnwrapSkip ==
    /\ pc = "unwrap"
    /\ pc' = IF line.tag = "ok" THEN "write" ELSE "next"
    /\ UNCHANGED <<fileExists, file, texts, damage, status, pending, reader, writer,
                   line, counter_lines, stdout, stderr, handed, pulls, flushes,
                   refused, failures>>

\* main.rs 29-31.
Unwrap ==
    /\ pc = "unwrap"
    /\ \/ /\ line.tag = "ok"
          /\ pc' = "write"
          /\ UNCHANGED <<stderr, pending>>
       \/ /\ line.tag = "err"
          /\ stderr' = Append(stderr,
                 Diag("Cannnot reading the line", counter_lines, line.err))
          /\ pending' = "panic"
          /\ pc' = "drop"
    /\ UNCHANGED <<fileExists, file, texts, damage, status, reader, writer, line,
                   counter_lines, stdout, handed, pulls, flushes, refused,
                   failures>>

\* main.rs 33.
Write ==
    /\ pc = "write"
    /\ LET data == LineBytes(line.val)
       IN  \E k1 \in 0..Len(writer.buf), k2 \in 0..Len(data) :
             LET r == write_all(writer.buf, stdout, data, k1, k2)
             IN  /\ handed' = handed \o data
                 /\ writer' = [writer EXCEPT !.buf = r.buf]
                 /\ stdout' = r.out
                 /\ refused' = (refused \/ ~r.ok)
                 /\ pending' = Question(r.ok, pending)
                 /\ pc' = IF r.ok THEN "next" ELSE "drop"
                 /\ failures' = IF r.ok THEN failures ELSE Append(failures, "write")
    /\ line' = NoLine
    /\ UNCHANGED <<fileExists, file, texts, damage, status, reader,
                   counter_lines, stderr, pulls, flushes>>

\* Variant: main returns Ok without flushing the writer.
FlushSkipped ==
    /\ pc = "flush"
    /\ pending' = "ok"
    /\ flushes' = flushes + 1
    /\ pc' = "drop"
    /\ UNCHANGED <<fileExists, file, texts, damage, status, reader, writer, line,
                   counter_lines, stdout, stderr, handed, pulls, refused, failures>>

\* main.rs 35-36.
Flush ==
    /\ pc = "flush"
    /\ \E k \in 0..Len(writer.buf) :
         LET r == flush_buf(writer.buf, stdout, k)
         IN  /\ writer' = [writer EXCEPT !.buf = r.buf]
             /\ stdout' = r.out
             /\ refused' = (refused \/ ~r.ok)
             /\ pending' = Question(r.ok, "ok")
             /\ failures' = IF r.ok THEN failures ELSE Append(failures, "flush")
    /\ flushes' = flushes + 1
    /\ pc' = "drop"
    /\ UNCHANGED <<fileExists, file, texts, damage, status, reader, line,
                   counter_lines, stderr, handed, pulls>>

\* Variant: the writer is not flushed when it is dropped.
DropWriterNoFlush ==
    /\ pc = "drop"
    /\ stderr' = IF pending = "err" THEN Append(stderr, RuntimeError) ELSE stderr
    /\ status' = pending
    /\ pc' = "exited"
    /\ UNCHANGED <<fileExists, file, texts, damage, pending, reader, writer, line,
                   counter_lines, stdout, handed, pulls, flushes, refused, failures>>

\* main.rs 37: main's scope ends (by return or by unwinding, the default
\* panic strategy); the BufWriter is dropped, which flushes its buffer and
\* ignores the result.  An Err returned by main is then reported by the
\* runtime.  A panic message is printed before unwinding starts (Unwrap).
DropWriter ==
    /\ pc = "drop"
    /\ \E k \in 0..Len(writer.buf) :
         LET r == flush_buf(writer.buf, stdout, k)
         IN  /\ writer' = [writer EXCEPT !.buf = r.buf]
             /\ stdout' = r.out
             /\ refused' = (refused \/ ~r.ok)
    /\ stderr' = IF pending = "err" THEN Append(stderr, RuntimeError) ELSE stderr
    /\ status' = pending
    /\ pc' = "exited"
    /\ UNCHANGED <<fileExists, file, texts, damage, pending, reader, line,
                   counter_lines, handed, pulls, flushes, failures>>

Next ==
    \/ open_reading_gzip
    \/ CreateWriter
    \/ Pull
    \/ Unwrap
    \/ Write
    \/ Flush
    \/ DropWriter

Spec == Init /\ [][Next]_vars

\* ============================================================ claims
\* Reference definitions, written from the format and not from the reader:
\* the lines of a text, walking it byte by byte.
Chomp(l) == IF l # <<>> /\ l[Len(l)] = CR THEN SubSeq(l, 1, Len(l) - 1) ELSE l

RECURSIVE RefLines(_, _)
RefLines(t, cur) ==
    IF t = <<>> THEN (IF cur = <<>> THEN <<>> ELSE <<cur>>)
    ELSE IF Head(t) = LF THEN <<Chomp(cur)>> \o RefLines(Tail(t), <<>>)
    ELSE RefLines(Tail(t), Append(cur, Head(t)))

SplitLines(t) == RefLines(t, <<>>)

\* The first n of the lines ls, each followed by one LF.
LinesOut(ls, n) == Concat([i \in 1..n |-> ls[i] \o <<LF>>])

CountLF(b) == Cardinality({i \in 1..Len(b) : b[i] = LF})

\* Number of lines of a text: one per LF, and one more for an unterminated tail.
NumLines(t) == CountLF(t) + (IF t # <<>> /\ t[Len(t)] # LF THEN 1 ELSE 0)

Exited == pc = "exited"

\* The input is a gzip file as written by a compressor, holding UTF-8 text.
ValidInput == fileExists /\ damage = "none" /\ ValidUtf8(Concat(texts))

\* C1: for a valid single-member input whose text has N lines, a run that
\* standard output does not refuse ends Ok with exactly the N lines on
\* standard output, in order, each followed by exactly one LF.
C1_SingleMemberOutput ==
    (Exited /\ ValidInput /\ Len(texts) = 1 /\ ~refused) =>
        LET ls == SplitLines(texts[1])
            N == NumLines(texts[1])
        IN  /\ status = "ok"
            /\ Len(ls) = N
            /\ stdout = LinesOut(ls, N)
            /\ CountLF(stdout) = N

C1_Witness ==
    /\ Exited /\ ValidInput /\ Len(texts) = 1 /\ ~refused
    /\ NumLines(texts[1]) = 2
    /\ status = "ok"
    /\ stdout = <<Ch, LF, Ch, LF>>

\* What decoding each member on its own and concatenating the texts gives.
SeparatelyDecoded ==
    Concat([i \in 1..Len(texts) |-> DecodeMember(GzEncode(texts[i]), 1).bytes])

\* C2: for a valid input of k >= 1 members the output is that of decoding
\* each member separately, concatenating the texts and only then splitting
\* into lines.
C2_MultiMemberTransparent ==
    (Exited /\ ValidInput /\ ~refused) =>
        LET ls == SplitLines(SeparatelyDecoded)
        IN  /\ status = "ok"
            /\ stdout = LinesOut(ls, Len(ls))

\* A line that spans the member boundary comes out as one line.
C2_Witness ==
    /\ Exited /\ ValidInput /\ ~refused
    /\ texts = << <<Ch>>, <<Ch, LF>> >>
    /\ stdout = <<Ch, Ch, LF>>

\* Every line terminator (CR LF, LF, lone CR) replaced by one LF, nothing else.
RECURSIVE NormalizeAll(_)
NormalizeAll(t) ==
    IF t = <<>> THEN <<>>
    ELSE IF Head(t) = CR /\ Len(t) >= 2 /\ t[2] = LF
         THEN <<LF>> \o NormalizeAll(Drop(t, 2))
    ELSE IF Head(t) = CR THEN <<LF>> \o NormalizeAll(Tail(t))
    ELSE <<Head(t)>> \o NormalizeAll(Tail(t))

\* CR LF replaced by LF, every other byte kept, and one LF appended to a
\* non-empty text that does not end in LF.
RECURSIVE DropCRBeforeLF(_)
DropCRBeforeLF(t) ==
    IF t = <<>> THEN <<>>
    ELSE IF Head(t) = CR /\ Len(t) >= 2 /\ t[2] = LF
         THEN <<LF>> \o DropCRBeforeLF(Drop(t, 2))
    ELSE <<Head(t)>> \o DropCRBeforeLF(Tail(t))

NormalizeLF(t) ==
    DropCRBeforeLF(t) \o (IF t # <<>> /\ t[Len(t)] # LF THEN <<LF>> ELSE <<>>)

\* C6 as stated: the output of the round trip is the text with every line
\* terminator replaced by one LF and nothing added, removed or changed.
C6_RoundTripAsStated ==
    (Exited /\ ValidInput /\ Len(texts) = 1 /\ ~refused) =>
        (status = "ok" /\ stdout = NormalizeAll(texts[1]))

\* C6 amended: the output of the round trip is the text with each CR LF
\* replaced by LF, a CR not followed by LF kept, and one LF appended when
\* the non-empty text does not end in LF.
C6_RoundTrip ==
    (Exited /\ ValidInput /\ Len(texts) = 1 /\ ~refused) =>
        (status = "ok" /\ stdout = NormalizeLF(texts[1]))

C6_Witness ==
    /\ Exited /\ ValidInput /\ ~refused /\ status = "ok"
    /\ texts = << <<CR, LF, CR>> >>
    /\ stdout = <<LF, CR, LF>>

\* The lines of the text the file was compressed from.
TextLines == SplitLines(Concat(texts))

ReadFailed == failures # <<>> /\ failures[1] = "read"

\* Ordinal of the line of t that holds its first invalid byte.
BadLineOrdinal(t) ==
    LET i == CHOOSE j \in 1..Len(t) : t[j] = BAD /\ \A h \in 1..(j - 1) : t[h] # BAD
    IN  CountLF(SubSeq(t, 1, i)) + 1

\* The diagnostic of a failed read names the file and the ordinal of the
\* failing pull; with invalid UTF-8 in an intact file that is the ordinal of
\* the line holding the invalid byte; and lines 1..N-1 were all written.
ReadFailureReported ==
    /\ status = "panic"
    /\ stderr = <<Diag("Cannnot reading the line", pulls, stderr[1].err)>>
    /\ stderr[1].err \in {"gzip", "InvalidData"}
    /\ (damage = "none" =>
            /\ stderr[1].err = "InvalidData"
            /\ stderr[1].line = BadLineOrdinal(Concat(texts)))
    /\ pulls - 1 <= Len(TextLines)
    /\ handed = LinesOut(TextLines, pulls - 1)

\* C3 as stated: when reading the Nth line fails the process aborts with a
\* diagnostic naming N and the file, and lines 1..N-1 have all reached
\* standard output when the process has ended.
C3_ReadFailureAsStated ==
    (Exited /\ ReadFailed) => (ReadFailureReported /\ stdout = handed)

\* C3 amended: when reading the Nth line fails the process aborts with a
\* diagnostic naming N and the file; lines 1..N-1 were all given to the
\* writer, which is flushed when dropped, so that they have all reached
\* standard output unless standard output refused them; what it refused is
\* lost and what it took is a prefix of those lines.
C3_ReadFailure ==
    (Exited /\ ReadFailed) =>
        /\ ReadFailureReported
        /\ stdout \o writer.buf = handed
        /\ (~refused => stdout = handed)

C3_Witness ==
    /\ Exited /\ ReadFailed /\ ~refused /\ damage = "none"
    /\ stderr = <<Diag("Cannnot reading the line", 2, "InvalidData")>>
    /\ stdout = <<Ch, LF>>

\* C4: when the file cannot be opened the process aborts with a diagnostic
\* naming the file and the open error; no writer is ever created, no line
\* is pulled and no byte is written.
C4_OpenFailure ==
    ~fileExists =>
        /\ ~writer.created /\ pulls = 0 /\ handed = <<>> /\ stdout = <<>>
        /\ pc \in {"open", "exited"}
        /\ (Exited =>
                /\ status = "panic"
                /\ failures = <<"open">>
                /\ stderr = <<Diag("Cannnot open file", 0, "open")>>)

C4_Witness ==
    /\ Exited /\ ~fileExists /\ status = "panic"
    /\ stderr # <<>> /\ stderr[1].file = filename

OutputFailed == failures # <<>> /\ failures[1] \in {"write", "flush"}

\* C5: a failed write or flush does not panic: main returns the I/O error,
\* which is reported without filename or line ordinal; open and read
\* failures are panics with the custom diagnostic.
C5_OutputFailure ==
    /\ (OutputFailed => pending = "err" /\ pc \in {"drop", "exited"})
    /\ ((Exited /\ OutputFailed) => status = "err" /\ stderr = <<RuntimeError>>)
    /\ ((Exited /\ failures # <<>> /\ ~OutputFailed) =>
            /\ status = "panic"
            /\ Len(stderr) = 1
            /\ stderr[1].file = filename
            /\ stderr[1].msg \in {"Cannnot open file", "Cannnot reading the line"})

C5_Witness ==
    /\ Exited /\ failures = <<"flush">> /\ status = "err"
    /\ stderr = <<RuntimeError>> /\ stdout # <<>>

\* C7: success is reported only after the one explicit flush succeeded, and
\* the flush happens only after every line was read and written: in a run
\* that ends in success all N lines have reached standard output.
C7_FlushBeforeSuccess ==
    /\ flushes <= 1
    /\ (flushes = 1 =>
            /\ pc \in {"drop", "exited"}
            /\ line.tag = "none" /\ reader.buf = <<>> /\ reader.d.st = "End"
            /\ handed = LinesOut(TextLines, Len(TextLines)))
    /\ ((pending = "ok" \/ status = "ok") =>
            /\ flushes = 1
            /\ failures = <<>>
            /\ writer.buf = <<>>
            /\ stdout = handed)

C7_Witness ==
    /\ Exited /\ status = "ok" /\ flushes = 1
    /\ Len(TextLines) = 2 /\ stdout = <<Ch, LF, LF>>

\* C8: the counter starts at 0, never decreases and counts the items pulled
\* from the reader, failed ones included; while a line is written or a read
\* failure reported it is the 1-based ordinal of that line, and at a
\* successful end it is the number of lines written.
C8_CounterState ==
    /\ (pc \in {"open", "stdout"} => counter_lines = 0)
    /\ counter_lines = pulls
    /\ (pc = "write" =>
            /\ counter_lines = CountLF(handed) + 1
            /\ counter_lines <= Len(TextLines)
            /\ line.val = TextLines[counter_lines])
    /\ (ReadFailed =>
            /\ counter_lines = CountLF(handed) + 1
            /\ (pc # "unwrap" => stderr[1].line = counter_lines))
    /\ (status = "ok" =>
            counter_lines = CountLF(stdout) /\ counter_lines = Len(TextLines))

C8_Counter == []C8_CounterState /\ [][counter_lines' >= counter_lines]_vars

C8_Witness ==
    /\ Exited /\ ReadFailed /\ counter_lines = 3
    /\ stderr[1].line = 3 /\ stdout = <<Ch, LF, LF>>

\* C9: every error is terminal: after the first failure no item is pulled
\* from the reader, no line is given to the writer, nothing is flushed
\* explicitly again and no further failure is met.
C9_ErrorsTerminal ==
    [][failures # <<>> =>
          /\ reader' = reader /\ pulls' = pulls /\ counter_lines' = counter_lines
          /\ handed' = handed /\ flushes' = flushes
          /\ failures' = failures
          /\ pc' \in {"drop", "exited"}]_vars

C9_Witness ==
    /\ Exited /\ ReadFailed /\ pulls = 1
    /\ Len(TextLines) = 3

\* C10: in every state the bytes given to the writer are exactly the first
\* c lines of the expected output, each with its LF, where c is the counter
\* minus one while a pulled item is not yet written and the counter
\* otherwise; what reached standard output, followed by what the writer
\* holds, is a prefix of those bytes.
C10_PrefixInvariant ==
    LET c == IF line.tag = "none" THEN counter_lines ELSE counter_lines - 1
    IN  /\ c >= 0 /\ c <= Len(TextLines)
        /\ handed = LinesOut(TextLines, c)
        /\ IsPrefix(stdout \o writer.buf, handed)
        /\ (ValidInput => IsPrefix(handed, NormalizeLF(Concat(texts))))

C10_Witness ==
    /\ pc = "write" /\ counter_lines = 2
    /\ handed = <<Ch, LF>> /\ writer.buf = <<Ch, LF>> /\ stdout = <<>>
    /\ line.val = <<Ch>>

====
